---------------------------- MODULE Spec2Model ----------------------------
(***************************************************************************)
(* A model of rpn2tex: the lexer (lexer.py), the stack-based RPN parser    *)
(* (parser.py), the LaTeX generator (latex_gen.py), the error formatter    *)
(* (errors.py) and the command-line pipeline that chains them (cli.py).    *)
(*                                                                         *)
(* Text is modelled as a sequence of characters, each character a string   *)
(* of its own, so that columns, spaces and carets can be counted.  The     *)
(* character U+00B2 (superscript two), for which Python's str.isdigit()    *)
(* holds although it is no decimal digit, is written "U+00B2".             *)
(***************************************************************************)
EXTENDS Integers, Sequences, FiniteSets, TLC

VARIABLES
    \* Lexer (lexer.py): self.text, self.pos, self.line, self.column, the
    \* local list `tokens` of tokenize, how the call ended, and what it raised
    text, pos, line, column, tokens, lexStatus, lexError,
    \* Parser (parser.py): self.tokens, self.pos, the local `stack` of parse,
    \* how the call ended, what it returned and what it raised
    ptokens, ppos, stack, pstatus, presult, perror,
    \* LaTeXGenerator (latex_gen.py): the argument of generate, how the call
    \* ended and what it returned
    ast, genStatus, latex,
    \* ErrorFormatter (errors.py): self.source, self.lines, the arguments of
    \* format_error, whether it was called and what it returned
    source, lines, fmtMessage, fmtLine, fmtColumn, context_lines, fmtStatus,
    formatted,
    \* main (cli.py): where main is, args.input, args.output, what was printed
    \* to the two streams, what was written to the output file, and the value
    \* main returned (<<>> while it has returned none)
    pc, inputArg, outputArg, stdout, stderr, outFile, exitCode

lexVars == <<text, pos, line, column, tokens, lexStatus, lexError>>
parserVars == <<ptokens, ppos, stack, pstatus, presult, perror>>
genVars == <<ast, genStatus, latex>>
fmtVars == <<source, lines, fmtMessage, fmtLine, fmtColumn, context_lines,
             fmtStatus, formatted>>
cliVars == <<pc, inputArg, outputArg, stdout, stderr, outFile, exitCode>>
vars == <<lexVars, parserVars, genVars, fmtVars, cliVars>>

----------------------------------------------------------------------------
(* Bounds of the model *)

\* longest input text over the whole alphabet
MaxTextLen == 3
\* longest input text over the alphabet of number literals
MaxNumLen == 5
\* most tokens before EOF in a token list handed to the parser
MaxTokens == 5
\* most operators in a tree handed to the generator
MaxOps == 2
\* longest source text handed to the error formatter
MaxSourceLen == 3
\* longest input text handed to main
MaxCliLen == 3
\* largest column handed to the error formatter
MaxColumn == 3
\* largest context_lines handed to the error formatter
MaxContext == 2

----------------------------------------------------------------------------
(* Characters *)

SuperscriptTwo == "U+00B2"
DecimalDigits == {"0", "1", "2", "3", "4", "5", "6", "7", "8", "9"}
\* characters c with c.isdigit() that are no decimal digit
OtherDigits == {SuperscriptTwo}
\* str.isdigit()
IsDigit(c) == c \in DecimalDigits \cup OtherDigits
\* the characters _skip_whitespace skips
Whitespace == {" ", "\t", "\n", "\r"}
OperatorChars == {"+", "-", "*", "/"}

\* all sequences over S of length at most n
SeqsUpTo(S, n) == UNION {[1..k -> S] : k \in 0..n}

\* str(n) for n >= 0
RECURSIVE IntToStr(_)
IntToStr(n) ==
    LET d == <<"0", "1", "2", "3", "4", "5", "6", "7", "8", "9">>[(n % 10) + 1]
    IN  IF n < 10 THEN <<d>> ELSE IntToStr(n \div 10) \o <<d>>

\* n copies of the character c
Repeat(c, n) == [i \in 1..n |-> c]

Max(a, b) == IF a >= b THEN a ELSE b
Min(a, b) == IF a <= b THEN a ELSE b

----------------------------------------------------------------------------
(* Tokens (tokens.py) *)

TokenType == {"NUMBER", "PLUS", "MINUS", "MULT", "DIV", "EOF"}
Token(type, value, l, c) == [type |-> type, value |-> value, line |-> l, column |-> c]

----------------------------------------------------------------------------
(* Lexer (lexer.py).  A cursor is the record of self.pos, self.line and    *)
(* self.column; the scanning methods are functions from cursor to cursor.  *)

Cursor(p, l, c) == [pos |-> p, line |-> l, column |-> c]

\* Lexer._at_end
LexAtEnd(cur) == cur.pos >= Len(text)

\* Lexer._peek
Peek(cur) == IF LexAtEnd(cur) THEN "" ELSE text[cur.pos + 1]

\* Lexer._advance with the column left as it is after a line feed
AdvanceNoColumnReset(cur) ==
    LET char == text[cur.pos + 1]
    IN  IF char = "\n"
        THEN Cursor(cur.pos + 1, cur.line + 1, cur.column + 1)
        ELSE Cursor(cur.pos + 1, cur.line, cur.column + 1)

\* Lexer._advance with the line left as it is after a line feed
AdvanceNoLineCount(cur) ==
    LET char == text[cur.pos + 1]
    IN  IF char = "\n"
        THEN Cursor(cur.pos + 1, cur.line, 1)
        ELSE Cursor(cur.pos + 1, cur.line, cur.column + 1)

\* Lexer._advance: the cursor after consuming the current character
Advance(cur) ==
    LET char == text[cur.pos + 1]
    IN  IF char = "\n"
        THEN Cursor(cur.pos + 1, cur.line + 1, 1)
        ELSE Cursor(cur.pos + 1, cur.line, cur.column + 1)

\* Lexer._skip_whitespace
RECURSIVE SkipWhitespace(_)
SkipWhitespace(cur) ==
    IF ~LexAtEnd(cur) /\ Peek(cur) \in Whitespace
    THEN SkipWhitespace(Advance(cur))
    ELSE cur

\* the loops `while not self._at_end() and self._peek().isdigit()` of
\* _scan_number: the cursor and the value after consuming a run of digits
RECURSIVE ScanDigits(_, _)
ScanDigits(cur, value) ==
    IF ~LexAtEnd(cur) /\ IsDigit(Peek(cur))
    THEN ScanDigits(Advance(cur), value \o <<Peek(cur)>>)
    ELSE [cur |-> cur, value |-> value]

\* the decimal part of _scan_number taken as often as a "." follows
RECURSIVE ScanFractions(_)
ScanFractions(r) ==
    IF ~LexAtEnd(r.cur) /\ Peek(r.cur) = "."
    THEN ScanFractions(ScanDigits(Advance(r.cur), r.value \o <<".">>))
    ELSE r

\* Lexer._scan_number consuming every further "." and the digits after it
ScanNumberManyDots(cur, prefix, start_line, start_column) ==
    LET all == ScanFractions(ScanDigits(cur, prefix))
    IN  [ok |-> TRUE, cur |-> all.cur,
         token |-> Token("NUMBER", all.value, start_line, start_column)]

\* Lexer._scan_number
ScanNumber(cur, prefix, start_line, start_column) ==
    LET int == ScanDigits(cur, prefix)
        frac == IF ~LexAtEnd(int.cur) /\ Peek(int.cur) = "."
                THEN ScanDigits(Advance(int.cur), int.value \o <<".">>)
                ELSE int
    IN  [ok |-> TRUE, cur |-> frac.cur,
         token |-> Token("NUMBER", frac.value, start_line, start_column)]

UnexpectedCharacterText ==
    <<"U", "n", "e", "x", "p", "e", "c", "t", "e", "d", " ",
      "c", "h", "a", "r", "a", "c", "t", "e", "r", " ", "'">>

\* LexerError(message, line, column)
LexerError(message, l, c) == [message |-> message, line |-> l, column |-> c]
NoError == LexerError(<<>>, 0, 0)
NoToken == Token("EOF", <<>>, 0, 0)

\* Lexer._scan_token: the token at the cursor and the cursor after it, or
\* the LexerError raised
ScanToken(cur) ==
    LET start_line == cur.line
        start_column == cur.column
        char == Peek(cur)
        single(type) ==
            [ok |-> TRUE, cur |-> Advance(cur),
             token |-> Token(type, <<char>>, start_line, start_column)]
    IN  IF char = "+" THEN single("PLUS")
        ELSE IF char = "-"
        THEN LET after == Advance(cur)
             IN  IF ~LexAtEnd(after) /\ IsDigit(Peek(after))
                 THEN ScanNumber(after, <<"-">>, start_line, start_column)
                 ELSE single("MINUS")
        ELSE IF char = "*" THEN single("MULT")
        ELSE IF char = "/" THEN single("DIV")
        ELSE IF IsDigit(char)
        THEN ScanNumber(cur, <<>>, start_line, start_column)
        ELSE [ok |-> FALSE, cur |-> cur,
              error |-> LexerError(UnexpectedCharacterText \o <<char, "'">>,
                                   start_line, start_column)]

\* Lexer.__init__ on the text read
NewLexer ==
    /\ pos' = 0
    /\ line' = 1
    /\ column' = 1
    /\ tokens' = <<>>
    /\ lexStatus' = "scanning"
    /\ lexError' = NoError

\* One iteration of the loop of tokenize: skip whitespace, then break at the
\* end of the text or scan one token, which may raise.
LexIteration ==
    /\ lexStatus = "scanning"
    /\ ~LexAtEnd(Cursor(pos, line, column))
    /\ LET cur == SkipWhitespace(Cursor(pos, line, column))
           scan == ScanToken(cur)
       IN  IF LexAtEnd(cur)
           THEN /\ pos' = cur.pos /\ line' = cur.line /\ column' = cur.column
                /\ UNCHANGED <<tokens, lexStatus, lexError>>
           ELSE IF scan.ok
           THEN /\ pos' = scan.cur.pos
                /\ line' = scan.cur.line
                /\ column' = scan.cur.column
                /\ tokens' = Append(tokens, scan.token)
                /\ UNCHANGED <<lexStatus, lexError>>
           ELSE /\ pos' = cur.pos /\ line' = cur.line /\ column' = cur.column
                /\ lexStatus' = "raised"
                /\ lexError' = scan.error
                /\ UNCHANGED tokens
    /\ UNCHANGED <<text, parserVars, genVars, fmtVars, cliVars>>

\* The end of tokenize: the EOF token is appended and the list returned.
LexFinish ==
    /\ lexStatus = "scanning"
    /\ LexAtEnd(Cursor(pos, line, column))
    /\ tokens' = Append(tokens, Token("EOF", <<>>, line, column))
    /\ lexStatus' = "returned"
    /\ UNCHANGED <<text, pos, line, column, lexError>>
    /\ UNCHANGED <<parserVars, genVars, fmtVars, cliVars>>

----------------------------------------------------------------------------
(* AST nodes (ast_nodes.py) *)

Number(l, c, value) == [type |-> "Number", line |-> l, column |-> c, value |-> value]
BinaryOp(l, c, operator, left, right) ==
    [type |-> "BinaryOp", line |-> l, column |-> c, operator |-> operator,
     left |-> left, right |-> right]
NoExpr == [type |-> "None"]

----------------------------------------------------------------------------
(* Parser (parser.py) *)

OperatorTypes == {"PLUS", "MINUS", "MULT", "DIV"}

\* op_map of Parser.parse
op_map == ("PLUS" :> "+") @@ ("MINUS" :> "-") @@ ("MULT" :> "*") @@ ("DIV" :> "/")

\* ParserError(message, token)
ParserError(message, token) == [message |-> message, token |-> token]
NoParserError == ParserError(<<>>, NoToken)

OperatorText == <<"O", "p", "e", "r", "a", "t", "o", "r", " ", "'">>
RequiresTwoOperandsText ==
    <<"'", " ", "r", "e", "q", "u", "i", "r", "e", "s", " ", "t", "w", "o", " ",
      "o", "p", "e", "r", "a", "n", "d", "s">>
EmptyExpressionText ==
    <<"E", "m", "p", "t", "y", " ", "e", "x", "p", "r", "e", "s", "s", "i", "o", "n">>
InvalidRpnText == <<"I", "n", "v", "a", "l", "i", "d", " ", "R", "P", "N", ":", " ">>
ValuesRemainText ==
    <<" ", "v", "a", "l", "u", "e", "s", " ", "r", "e", "m", "a", "i", "n", " ",
      "o", "n", " ", "s", "t", "a", "c", "k", " ", "(", "m", "i", "s", "s", "i",
      "n", "g", " ", "o", "p", "e", "r", "a", "t", "o", "r", "s", "?", ")">>
UnexpectedTokenText ==
    <<"U", "n", "e", "x", "p", "e", "c", "t", "e", "d", " ", "t", "o", "k", "e",
      "n", " ", "'">>

\* Parser._current
Current == ptokens[ppos + 1]

\* Parser._at_end
ParserAtEnd == ptokens[ppos + 1].type = "EOF"

\* Parser._advance leaving self.pos where it is
ParserAdvanceStuck == ppos

\* Parser._advance: self.pos after consuming the current token
ParserAdvance == IF ~ParserAtEnd THEN ppos + 1 ELSE ppos

\* Parser.__init__
NewParser(toks) ==
    /\ ptokens' = toks
    /\ ppos' = 0
    /\ stack' = <<>>
    /\ pstatus' = "running"
    /\ presult' = NoExpr
    /\ perror' = NoParserError

\* the NUMBER branch of parse: the stack after the push
PushNumber(stk, token) ==
    Append(stk, Number(token.line, token.column, token.value))

\* the operator branch of parse with the pops done before the operand check
ApplyOperatorPopFirst(stk, token) ==
    IF Len(stk) < 2
    THEN [raised |-> TRUE, stack |-> SubSeq(stk, 1, Len(stk) - 1),
          error |-> ParserError(OperatorText \o token.value \o RequiresTwoOperandsText,
                                token)]
    ELSE [raised |-> FALSE,
          stack |-> Append(SubSeq(stk, 1, Len(stk) - 2),
                           BinaryOp(token.line, token.column, op_map[token.type],
                                    stk[Len(stk) - 1], stk[Len(stk)]))]

\* the operator branch of parse with the popped operands dropped: the
\* right operand is pushed back in place of the new node
ApplyOperatorNoNode(stk, token) ==
    IF Len(stk) < 2
    THEN [raised |-> TRUE, stack |-> stk,
          error |-> ParserError(OperatorText \o token.value \o RequiresTwoOperandsText,
                                token)]
    ELSE [raised |-> FALSE,
          stack |-> Append(SubSeq(stk, 1, Len(stk) - 2), stk[Len(stk)])]

\* the operator branch of parse with the operands taken in the order of
\* the pops: the first popped on the left
ApplyOperatorSwapped(stk, token) ==
    IF Len(stk) < 2
    THEN [raised |-> TRUE, stack |-> stk,
          error |-> ParserError(OperatorText \o token.value \o RequiresTwoOperandsText,
                                token)]
    ELSE [raised |-> FALSE,
          stack |-> Append(SubSeq(stk, 1, Len(stk) - 2),
                           BinaryOp(token.line, token.column, op_map[token.type],
                                    stk[Len(stk)], stk[Len(stk) - 1]))]

\* the operator branch of parse: the operand check, then right = pop(),
\* left = pop() and the push of the BinaryOp at the operator's position
ApplyOperator(stk, token) ==
    IF Len(stk) < 2
    THEN [raised |-> TRUE, stack |-> stk,
          error |-> ParserError(OperatorText \o token.value \o RequiresTwoOperandsText,
                                token)]
    ELSE LET right == stk[Len(stk)]
             left == stk[Len(stk) - 1]
         IN  [raised |-> FALSE,
              stack |-> Append(SubSeq(stk, 1, Len(stk) - 2),
                               BinaryOp(token.line, token.column, op_map[token.type],
                                        left, right))]

\* the validation after the loop of parse, positioned at the first token
ValidateAtFirstToken(stk, toks) ==
    IF Len(stk) = 0
    THEN [raised |-> TRUE, error |-> ParserError(EmptyExpressionText, toks[1])]
    ELSE IF Len(stk) > 1
    THEN [raised |-> TRUE,
          error |-> ParserError(InvalidRpnText \o IntToStr(Len(stk)) \o ValuesRemainText,
                                toks[1])]
    ELSE [raised |-> FALSE, result |-> stk[1]]

\* the validation after the loop of parse accepting any stack that is not
\* empty and returning its top
ValidateLenient(stk, toks) ==
    IF Len(stk) = 0
    THEN [raised |-> TRUE, error |-> ParserError(EmptyExpressionText, toks[Len(toks)])]
    ELSE [raised |-> FALSE, result |-> stk[Len(stk)]]

\* the validation after the loop of parse: what parse raises or returns
Validate(stk, toks) ==
    IF Len(stk) = 0
    THEN [raised |-> TRUE, error |-> ParserError(EmptyExpressionText, toks[Len(toks)])]
    ELSE IF Len(stk) > 1
    THEN [raised |-> TRUE,
          error |-> ParserError(InvalidRpnText \o IntToStr(Len(stk)) \o ValuesRemainText,
                                toks[Len(toks)])]
    ELSE [raised |-> FALSE, result |-> stk[1]]

\* One iteration of the loop of parse, on a token that is not EOF.
ParseStep ==
    /\ pstatus = "running"
    /\ ~ParserAtEnd
    /\ LET token == Current
           applied == ApplyOperator(stack, token)
       IN  IF token.type = "NUMBER"
           THEN /\ stack' = PushNumber(stack, token)
                /\ ppos' = ParserAdvance
                /\ UNCHANGED <<pstatus, perror>>
           ELSE IF token.type \in OperatorTypes
           THEN IF applied.raised
                THEN /\ stack' = applied.stack
                     /\ pstatus' = "raised"
                     /\ perror' = applied.error
                     /\ UNCHANGED ppos
                ELSE /\ stack' = applied.stack
                     /\ ppos' = ParserAdvance
                     /\ UNCHANGED <<pstatus, perror>>
           ELSE /\ pstatus' = "raised"
                /\ perror' = ParserError(UnexpectedTokenText \o token.value \o <<"'">>,
                                         token)
                /\ UNCHANGED <<stack, ppos>>
    /\ UNCHANGED <<ptokens, presult>>
    /\ UNCHANGED <<lexVars, genVars, fmtVars, cliVars>>

\* The end of parse: the loop has met EOF and the stack is validated.
ParseFinish ==
    /\ pstatus = "running"
    /\ ParserAtEnd
    /\ LET v == Validate(stack, ptokens)
       IN  IF v.raised
           THEN /\ pstatus' = "raised"
                /\ perror' = v.error
                /\ UNCHANGED presult
           ELSE /\ pstatus' = "returned"
                /\ presult' = v.result
                /\ UNCHANGED perror
    /\ UNCHANGED <<ptokens, ppos, stack>>
    /\ UNCHANGED <<lexVars, genVars, fmtVars, cliVars>>

----------------------------------------------------------------------------
(* LaTeXGenerator (latex_gen.py) *)

\* LaTeXGenerator.BINARY_OPS
BINARY_OPS ==
    ("+" :> <<"+">>) @@ ("-" :> <<"-">>) @@
    ("*" :> <<"\\", "t", "i", "m", "e", "s">>) @@ ("/" :> <<"\\", "d", "i", "v">>)

\* LaTeXGenerator.PRECEDENCE
PRECEDENCE == ("+" :> 1) @@ ("-" :> 1) @@ ("*" :> 2) @@ ("/" :> 2)

\* LaTeXGenerator._needs_parens
NeedsParens(child, parent_precedence, is_right) ==
    IF child.type # "BinaryOp"
    THEN FALSE
    ELSE LET child_precedence == PRECEDENCE[child.operator]
         IN  IF child_precedence < parent_precedence
             THEN TRUE
             ELSE /\ child_precedence = parent_precedence
                  /\ is_right
                  /\ child.operator \in {"-", "/"}

\* f"( {left} )" without the inner spaces
ParenthesizeTight(s) == <<"(">> \o s \o <<")">>

\* f"( {left} )" of _visit_binary_op
Parenthesize(s) == <<"(", " ">> \o s \o <<" ", ")">>

\* f"{left} {op_latex} {right}" of _visit_binary_op
JoinBinary(left, op_latex, right) == left \o <<" ">> \o op_latex \o <<" ">> \o right

\* LaTeXGenerator._visit with _visit_number and _visit_binary_op: the text of
\* the node, or raised when a lookup in BINARY_OPS or PRECEDENCE fails
\* (KeyError) or no visitor is registered (NotImplementedError)
RECURSIVE Visit(_)
Visit(node) ==
    IF node.type = "Number"
    THEN [raised |-> FALSE, out |-> node.value]
    ELSE IF node.type = "BinaryOp"
    THEN IF node.operator \notin DOMAIN BINARY_OPS
         THEN [raised |-> TRUE, out |-> <<>>]
         ELSE LET op_latex == BINARY_OPS[node.operator]
                  my_precedence == PRECEDENCE[node.operator]
                  l == Visit(node.left)
                  r == Visit(node.right)
              IN  IF l.raised \/ r.raised
                  THEN [raised |-> TRUE, out |-> <<>>]
                  ELSE LET left == IF NeedsParens(node.left, my_precedence, FALSE)
                                   THEN Parenthesize(l.out) ELSE l.out
                           right == IF NeedsParens(node.right, my_precedence, TRUE)
                                    THEN Parenthesize(r.out) ELSE r.out
                       IN  [raised |-> FALSE, out |-> JoinBinary(left, op_latex, right)]
    ELSE [raised |-> TRUE, out |-> <<>>]

\* LaTeXGenerator.generate
GenerateLatex(node) ==
    LET content == Visit(node)
    IN  IF content.raised
        THEN content
        ELSE [raised |-> FALSE, out |-> <<"$">> \o content.out \o <<"$">>]

\* A call of generate on the tree `ast`.
Generate ==
    /\ genStatus = "called"
    /\ LET g == GenerateLatex(ast)
       IN  /\ genStatus' = IF g.raised THEN "raised" ELSE "returned"
           /\ latex' = g.out
    /\ UNCHANGED ast
    /\ UNCHANGED <<lexVars, parserVars, fmtVars, cliVars>>

----------------------------------------------------------------------------
(* ErrorFormatter (errors.py) *)

\* the line boundaries of str.splitlines that are one character long; "\f"
\* stands for those that are neither "\n" nor "\r"
LineBreaks == {"\n", "\r", "\f"}

\* str.splitlines from index i on, `cur` being the line collected so far:
\* "\r\n" is one boundary, and no empty line follows a final boundary
RECURSIVE SplitFrom(_, _, _)
SplitFrom(s, i, cur) ==
    IF i > Len(s)
    THEN IF cur = <<>> THEN <<>> ELSE <<cur>>
    ELSE IF s[i] \in LineBreaks
    THEN LET next == IF s[i] = "\r" /\ i < Len(s) /\ s[i + 1] = "\n"
                     THEN i + 2 ELSE i + 1
         IN  <<cur>> \o SplitFrom(s, next, <<>>)
    ELSE SplitFrom(s, i + 1, Append(cur, s[i]))

\* source.splitlines() of ErrorFormatter.__init__
SplitLines(s) == SplitFrom(s, 1, <<>>)

\* sep.join(parts)
RECURSIVE Join(_, _)
Join(parts, sep) ==
    IF Len(parts) = 0 THEN <<>>
    ELSE IF Len(parts) = 1 THEN parts[1]
    ELSE parts[1] \o sep \o Join(Tail(parts), sep)

\* f"{s:>{width}}"
RightAlign(s, width) == Repeat(" ", Max(0, width - Len(s))) \o s

BarText == <<" ", "|", " ">>
ErrorText == <<"E", "r", "r", "o", "r", ":", " ">>

\* the caret row of _get_context with the caret one column to the right
CaretLineAtColumn(num_width, col) ==
    Repeat(" ", num_width) \o BarText \o Repeat(" ", Max(0, col)) \o <<"^">>

\* the caret row of _get_context
CaretLine(num_width, col) ==
    Repeat(" ", num_width) \o BarText \o Repeat(" ", Max(0, col - 1)) \o <<"^">>

\* the row of a source line of _get_context
SourceLine(lns, idx, num_width) ==
    LET line_num == idx + 1
        line_content == IF idx < Len(lns) THEN lns[idx + 1] ELSE <<>>
    IN  RightAlign(IntToStr(line_num), num_width) \o BarText \o line_content

\* the loop `for idx in range(start_idx, end_idx)` of _get_context from idx on
RECURSIVE ContextRows(_, _, _, _, _, _)
ContextRows(lns, idx, end_idx, error_idx, col, num_width) ==
    IF idx >= end_idx
    THEN <<>>
    ELSE <<SourceLine(lns, idx, num_width)>>
         \o (IF idx = error_idx THEN <<CaretLine(num_width, col)>> ELSE <<>>)
         \o ContextRows(lns, idx + 1, end_idx, error_idx, col, num_width)

\* ErrorFormatter._get_context
GetContext(lns, l, col, ctx) ==
    LET error_idx == l - 1
        start_idx == Max(0, error_idx - ctx)
        end_idx == Min(Len(lns), error_idx + ctx + 1)
        max_line_num == end_idx
        num_width == Len(IntToStr(max_line_num))
    IN  Join(ContextRows(lns, start_idx, end_idx, error_idx, col, num_width), <<"\n">>)

\* ErrorFormatter.format_error
FormatErrorText(lns, message, l, col, ctx) ==
    Join(<<ErrorText \o message, <<>>, GetContext(lns, l, col, ctx)>>, <<"\n">>)

\* ErrorFormatter.__init__
NewFormatter(s) ==
    /\ source' = s
    /\ lines' = SplitLines(s)

\* A call of format_error with the arguments in fmtMessage, fmtLine,
\* fmtColumn and context_lines.
FormatError ==
    /\ fmtStatus = "called"
    /\ formatted' = FormatErrorText(lines, fmtMessage, fmtLine, fmtColumn, context_lines)
    /\ fmtStatus' = "returned"
    /\ UNCHANGED <<source, lines, fmtMessage, fmtLine, fmtColumn, context_lines>>
    /\ UNCHANGED <<lexVars, parserVars, genVars, cliVars>>

----------------------------------------------------------------------------
(* main (cli.py) *)

\* the outcomes of reading the input file and of writing the output file:
\* success, or one of the exceptions main names
IOOutcomes == {"ok", "FileNotFoundError", "PermissionError", "IsADirectoryError"}

StdinArg == <<"-">>
InputPath == <<"i", "n">>
OutputPath == <<"o", "u", "t">>

InputNotFoundText ==
    <<"E", "r", "r", "o", "r", ":", " ", "I", "n", "p", "u", "t", " ", "f", "i",
      "l", "e", " ", "n", "o", "t", " ", "f", "o", "u", "n", "d", ":", " ">>
DeniedReadingText ==
    <<"E", "r", "r", "o", "r", ":", " ", "P", "e", "r", "m", "i", "s", "s", "i",
      "o", "n", " ", "d", "e", "n", "i", "e", "d", " ", "r", "e", "a", "d", "i",
      "n", "g", ":", " ">>
GotDirectoryText ==
    <<"E", "r", "r", "o", "r", ":", " ", "E", "x", "p", "e", "c", "t", "e", "d",
      " ", "a", " ", "f", "i", "l", "e", ",", " ", "g", "o", "t", " ", "a", " ",
      "d", "i", "r", "e", "c", "t", "o", "r", "y", ":", " ">>
DeniedWritingText ==
    <<"E", "r", "r", "o", "r", ":", " ", "P", "e", "r", "m", "i", "s", "s", "i",
      "o", "n", " ", "d", "e", "n", "i", "e", "d", " ", "w", "r", "i", "t", "i",
      "n", "g", ":", " ">>
WriteToDirectoryText ==
    <<"E", "r", "r", "o", "r", ":", " ", "C", "a", "n", "n", "o", "t", " ", "w",
      "r", "i", "t", "e", " ", "t", "o", " ", "d", "i", "r", "e", "c", "t", "o",
      "r", "y", ":", " ">>
GeneratedText == <<"G", "e", "n", "e", "r", "a", "t", "e", "d", ":", " ">>

\* print(s, file=stream): the stream after it
PrintTo(stream, s) == stream \o s \o <<"\n">>

\* what main does with a failure to read the input: the message it prints
ReadFailureMessage(outcome) ==
    IF outcome = "FileNotFoundError" THEN InputNotFoundText \o inputArg
    ELSE IF outcome = "PermissionError" THEN DeniedReadingText \o inputArg
    ELSE GotDirectoryText \o inputArg

\* the except clauses of the read: the exceptions caught there
ReadCaught == {"FileNotFoundError", "PermissionError", "IsADirectoryError"}

\* the except clauses of the write: the exceptions caught there
WriteCaught == {"PermissionError", "IsADirectoryError"}

\* "Read input": text is what the read returns; the formatter and the lexer
\* are constructed on it, or the failure is reported and main returns 1.
CliRead ==
    /\ pc = "read"
    /\ \E outcome \in (IF inputArg = StdinArg THEN {"ok"} ELSE IOOutcomes) :
         IF outcome = "ok"
         THEN /\ NewFormatter(text)
              /\ NewLexer
              /\ pc' = "tokenize"
              /\ UNCHANGED <<stderr, exitCode>>
         ELSE /\ stderr' = PrintTo(stderr, ReadFailureMessage(outcome))
              /\ exitCode' = <<1>>
              /\ pc' = "returned"
              /\ UNCHANGED <<source, lines, pos, line, column, tokens, lexStatus,
                             lexError>>
    /\ UNCHANGED <<text, fmtMessage, fmtLine, fmtColumn, context_lines, fmtStatus,
                   formatted, inputArg, outputArg, stdout, outFile>>
    /\ UNCHANGED <<parserVars, genVars>>

\* Parser(tokens) constructed and parse called on the tokens scanned so far,
\* closed by an EOF token, without waiting for tokenize to return
CliParseEarly ==
    /\ pc = "tokenize"
    /\ lexStatus \in {"scanning", "returned"}
    /\ NewParser(IF lexStatus = "returned" THEN tokens
                 ELSE Append(tokens, Token("EOF", <<>>, line, column)))
    /\ pc' = "parse"
    /\ UNCHANGED <<inputArg, outputArg, stdout, stderr, outFile, exitCode>>
    /\ UNCHANGED <<lexVars, genVars, fmtVars>>

\* tokenize has returned: Parser(tokens) is constructed and parse is called.
CliParse ==
    /\ pc = "tokenize"
    /\ lexStatus = "returned"
    /\ NewParser(tokens)
    /\ pc' = "parse"
    /\ UNCHANGED <<inputArg, outputArg, stdout, stderr, outFile, exitCode>>
    /\ UNCHANGED <<lexVars, genVars, fmtVars>>

\* `except LexerError as e`: format_error(e.message, e.line, e.column)
CliLexerError ==
    /\ pc = "tokenize"
    /\ lexStatus = "raised"
    /\ fmtMessage' = lexError.message
    /\ fmtLine' = lexError.line
    /\ fmtColumn' = lexError.column
    /\ fmtStatus' = "called"
    /\ pc' = "format"
    /\ UNCHANGED <<source, lines, context_lines, formatted>>
    /\ UNCHANGED <<inputArg, outputArg, stdout, stderr, outFile, exitCode>>
    /\ UNCHANGED <<lexVars, parserVars, genVars>>

\* `except ParserError as e`: format_error(e.message, e.token.line,
\* e.token.column)
CliParserError ==
    /\ pc = "parse"
    /\ pstatus = "raised"
    /\ fmtMessage' = perror.message
    /\ fmtLine' = perror.token.line
    /\ fmtColumn' = perror.token.column
    /\ fmtStatus' = "called"
    /\ pc' = "format"
    /\ UNCHANGED <<source, lines, context_lines, formatted>>
    /\ UNCHANGED <<inputArg, outputArg, stdout, stderr, outFile, exitCode>>
    /\ UNCHANGED <<lexVars, parserVars, genVars>>

\* the formatted error is printed to stderr and main returns 1
CliPrintError ==
    /\ pc = "format"
    /\ fmtStatus = "returned"
    /\ stderr' = PrintTo(stderr, formatted)
    /\ exitCode' = <<1>>
    /\ pc' = "returned"
    /\ UNCHANGED <<inputArg, outputArg, stdout, outFile>>
    /\ UNCHANGED <<lexVars, parserVars, genVars, fmtVars>>

\* parse has returned: generate is called on the tree.
CliGenerate ==
    /\ pc = "parse"
    /\ pstatus = "returned"
    /\ ast' = presult
    /\ genStatus' = "called"
    /\ pc' = "generate"
    /\ UNCHANGED latex
    /\ UNCHANGED <<inputArg, outputArg, stdout, stderr, outFile, exitCode>>
    /\ UNCHANGED <<lexVars, parserVars, fmtVars>>

\* "Write output": to the output file, where a failure main catches is
\* reported and any other propagates out of main, or to stdout.
CliWrite ==
    /\ pc = "generate"
    /\ genStatus \in {"returned", "raised"}
    /\ IF genStatus = "raised"
       THEN /\ pc' = "raised"
            /\ UNCHANGED <<stdout, stderr, outFile, exitCode>>
       ELSE IF outputArg # <<>>
       THEN \E outcome \in IOOutcomes :
              IF outcome = "ok"
              THEN /\ outFile' = latex \o <<"\n">>
                   /\ stderr' = PrintTo(stderr, GeneratedText \o outputArg)
                   /\ exitCode' = <<0>>
                   /\ pc' = "returned"
                   /\ UNCHANGED stdout
              ELSE IF outcome \in WriteCaught
              THEN /\ stderr' = PrintTo(stderr,
                                   (IF outcome = "PermissionError"
                                    THEN DeniedWritingText
                                    ELSE WriteToDirectoryText) \o outputArg)
                   /\ exitCode' = <<1>>
                   /\ pc' = "returned"
                   /\ UNCHANGED <<stdout, outFile>>
              ELSE /\ pc' = "raised"
                   /\ UNCHANGED <<stdout, stderr, outFile, exitCode>>
       ELSE /\ stdout' = PrintTo(stdout, latex)
            /\ exitCode' = <<0>>
            /\ pc' = "returned"
            /\ UNCHANGED <<stderr, outFile>>
    /\ UNCHANGED <<inputArg, outputArg>>
    /\ UNCHANGED <<lexVars, parserVars, genVars, fmtVars>>

----------------------------------------------------------------------------
(* Initial states *)

LexerIdle ==
    /\ text = <<>> /\ pos = 0 /\ line = 1 /\ column = 1
    /\ tokens = <<>> /\ lexStatus = "idle" /\ lexError = NoError

ParserIdle ==
    /\ ptokens = <<>> /\ ppos = 0 /\ stack = <<>>
    /\ pstatus = "idle" /\ presult = NoExpr /\ perror = NoParserError

GenIdle == ast = NoExpr /\ genStatus = "idle" /\ latex = <<>>

FmtIdle ==
    /\ source = <<>> /\ lines = <<>> /\ fmtMessage = <<>> /\ fmtLine = 1
    /\ fmtColumn = 1 /\ context_lines = 1 /\ fmtStatus = "idle" /\ formatted = <<>>

CliIdle ==
    /\ pc = "idle" /\ inputArg = <<>> /\ outputArg = <<>>
    /\ stdout = <<>> /\ stderr = <<>> /\ outFile = <<>> /\ exitCode = <<>>

\* Input texts of the lexer: every text of at most MaxTextLen characters,
\* every text of at most MaxNumLen characters of number literals, and the
\* texts of the tests.
LexAlphabet ==
    {"5", SuperscriptTwo, "+", "-", "*", "/", ".", " ", "\t", "\n", "\r", "@"}
NumAlphabet == {"5", ".", "-", " "}
ExampleTexts ==
    {<<"5", " ", "3", " ", "+">>, <<"5", "\n", "3", "\n", "+">>,
     <<"2", " ", "3", " ", "+", " ", "4", " ", "*">>}
\* number literals with a second "." and with a leading "."
DotTexts == {<<"1", ".", "2", ".", "3">>, <<".", "5">>}
LexTexts ==
    SeqsUpTo(LexAlphabet, MaxTextLen) \cup SeqsUpTo(NumAlphabet, MaxNumLen)
        \cup ExampleTexts \cup DotTexts

\* A Lexer constructed on one of the texts.
InitLexer ==
    /\ text \in LexTexts
    /\ pos = 0 /\ line = 1 /\ column = 1
    /\ tokens = <<>> /\ lexStatus = "scanning" /\ lexError = NoError
    /\ ParserIdle /\ GenIdle /\ FmtIdle /\ CliIdle

NextLexer == LexIteration \/ LexFinish

SpecLexer == InitLexer /\ [][NextLexer]_vars

\* Token lists of the parser: what tokenize returns for at most MaxTokens
\* one-character numbers and operators separated by single spaces, the i-th
\* at column 2i-1 and EOF just past the last.
TokenChar == ("PLUS" :> "+") @@ ("MINUS" :> "-") @@ ("MULT" :> "*") @@ ("DIV" :> "/")
TokenList(types) ==
    [i \in 1..(Len(types) + 1) |->
        IF i > Len(types)
        THEN Token("EOF", <<>>, 1, IF Len(types) = 0 THEN 1 ELSE 2 * Len(types))
        ELSE IF types[i] = "NUMBER"
        THEN Token("NUMBER", IntToStr(i), 1, 2 * i - 1)
        ELSE Token(types[i], <<TokenChar[types[i]]>>, 1, 2 * i - 1)]
TokenLists == {TokenList(types) : types \in SeqsUpTo({"NUMBER"} \cup OperatorTypes, MaxTokens)}

\* A Parser constructed on one of the token lists.
InitParser ==
    /\ ptokens \in TokenLists
    /\ ppos = 0 /\ stack = <<>>
    /\ pstatus = "running" /\ presult = NoExpr /\ perror = NoParserError
    /\ LexerIdle /\ GenIdle /\ FmtIdle /\ CliIdle

NextParser == ParseStep \/ ParseFinish

SpecParser == InitParser /\ [][NextParser]_vars

\* The two loops on their own, each taking its next iteration as long as it
\* has one: a call of tokenize on one of the texts, or a call of parse on one
\* of the token lists.
LoopAlphabet == {"5", SuperscriptTwo, "+", "-", ".", " ", "\n", "@"}
LoopTexts == SeqsUpTo(LoopAlphabet, MaxTextLen) \cup ExampleTexts \cup DotTexts
InitLoops ==
    \/ /\ text \in LoopTexts
       /\ pos = 0 /\ line = 1 /\ column = 1
       /\ tokens = <<>> /\ lexStatus = "scanning" /\ lexError = NoError
       /\ ParserIdle /\ GenIdle /\ FmtIdle /\ CliIdle
    \/ InitParser

NextLoops == LexIteration \/ LexFinish \/ ParseStep \/ ParseFinish

SpecLoops == InitLoops /\ [][NextLoops]_vars /\ WF_vars(NextLoops)

\* Trees of the generator: every tree with at most MaxOps BinaryOp nodes over
\* two number texts, the four operators and "^", which BINARY_OPS lacks.
GenValues == {<<"5">>, <<"-", "3", ".", "1">>}
GenOperators == {"+", "-", "*", "/", "^"}
RECURSIVE TreesWithOps(_)
TreesWithOps(n) ==
    IF n = 0
    THEN {Number(1, 1, v) : v \in GenValues}
    ELSE UNION {{BinaryOp(1, 1, op, l, r) :
                    op \in GenOperators, l \in TreesWithOps(i),
                    r \in TreesWithOps(n - 1 - i)} : i \in 0..(n - 1)}
Trees == UNION {TreesWithOps(n) : n \in 0..MaxOps}

\* A call of generate on one of the trees.
InitGenerator ==
    /\ ast \in Trees
    /\ genStatus = "called" /\ latex = <<>>
    /\ LexerIdle /\ ParserIdle /\ FmtIdle /\ CliIdle

NextGenerator == Generate

SpecGenerator == InitGenerator /\ [][NextGenerator]_vars

\* Calls of format_error: every source of at most MaxSourceLen characters
\* with every line up to two past its last, every column up to MaxColumn
\* and every context_lines up to MaxContext; the call of the tests; and
\* calls on a source of eleven lines, whose line numbers have two digits.
FmtAlphabet == {"5", "@", " ", "\n", "\r"}
TestSource == <<"5", " ", "3", " ", "@">>
ElevenLines == [i \in 1..22 |-> IF i % 2 = 1 THEN "5" ELSE "\n"]
FmtMessages == {<<"E", "r", "r", "o", "r">>}
FmtCalls ==
    {[source |-> s, line |-> l, column |-> c, ctx |-> k] :
        s \in SeqsUpTo(FmtAlphabet, MaxSourceLen), l \in 1..(MaxSourceLen + 3),
        c \in 1..MaxColumn, k \in 0..MaxContext}
    \cup {[source |-> TestSource, line |-> 1, column |-> 5, ctx |-> 1]}
    \cup {[source |-> ElevenLines, line |-> l, column |-> c, ctx |-> 1] :
            l \in 8..13, c \in 1..2}

\* An ErrorFormatter constructed on a source, and format_error called.
InitFormatter ==
    /\ \E call \in FmtCalls :
         /\ source = call.source
         /\ lines = SplitLines(call.source)
         /\ fmtLine = call.line
         /\ fmtColumn = call.column
         /\ context_lines = call.ctx
         /\ call.line <= Len(SplitLines(call.source)) + 2
    /\ fmtMessage \in FmtMessages
    /\ fmtStatus = "called" /\ formatted = <<>>
    /\ LexerIdle /\ ParserIdle /\ GenIdle /\ CliIdle

NextFormatter == FormatError

SpecFormatter == InitFormatter /\ [][NextFormatter]_vars

\* Runs of main: every input text of at most MaxCliLen characters, read from
\* stdin or from a file, the output to stdout or to a file.  text is what
\* the read returns: read_text opens the file with universal newlines and
\* returns no "\r", sys.stdin.read() returns the characters as they are.
CliAlphabet == {"5", "+", "-", " ", "\t", "\n", "\r", "@"}
CliTexts == SeqsUpTo(CliAlphabet, MaxCliLen) \cup ExampleTexts

Init ==
    /\ text \in CliTexts
    /\ pos = 0 /\ line = 1 /\ column = 1
    /\ tokens = <<>> /\ lexStatus = "idle" /\ lexError = NoError
    /\ ParserIdle /\ GenIdle /\ FmtIdle
    /\ pc = "read"
    /\ inputArg \in {StdinArg, InputPath}
    /\ inputArg = InputPath => \A i \in 1..Len(text) : text[i] # "\r"
    /\ outputArg \in {<<>>, OutputPath}
    /\ stdout = <<>> /\ stderr = <<>> /\ outFile = <<>> /\ exitCode = <<>>

Next ==
    \/ CliRead
    \/ LexIteration
    \/ LexFinish
    \/ CliParse
    \/ CliLexerError
    \/ ParseStep
    \/ ParseFinish
    \/ CliParserError
    \/ FormatError
    \/ CliPrintError
    \/ CliGenerate
    \/ Generate
    \/ CliWrite

Spec == Init /\ [][Next]_vars

----------------------------------------------------------------------------
(* Properties of the generator, under SpecGenerator *)

PlainOperators == {"+", "-", "*", "/"}

\* the precedence table of the specification
RankOf(operator) == IF operator \in {"*", "/"} THEN 2 ELSE 1

\* the symbol table of the specification
SymbolOf(operator) ==
    IF operator = "*" THEN <<"\\", "t", "i", "m", "e", "s">>
    ELSE IF operator = "/" THEN <<"\\", "d", "i", "v">>
    ELSE <<operator>>

\* a tree of Number leaves and BinaryOp nodes over + - * /
RECURSIVE WellFormed(_)
WellFormed(node) ==
    \/ node.type = "Number"
    \/ /\ node.type = "BinaryOp"
       /\ node.operator \in PlainOperators
       /\ WellFormed(node.left)
       /\ WellFormed(node.right)

\* the parenthesisation rule as stated: the operand is a BinaryOp of lower
\* precedence, or of equal precedence on the right of a "-" or "/" parent
StatedNeedsParens(child, parent, is_right) ==
    /\ child.type = "BinaryOp"
    /\ \/ RankOf(child.operator) < RankOf(parent.operator)
       \/ /\ RankOf(child.operator) = RankOf(parent.operator)
          /\ is_right
          /\ parent.operator \in {"-", "/"}

StatedOperand(child, parent, is_right) ==
    IF StatedNeedsParens(child, parent, is_right)
    THEN <<"(", " ">> \o Visit(child).out \o <<" ", ")">>
    ELSE Visit(child).out

\* C1: when a BinaryOp is rendered, an operand is wrapped in "( ... )"
\* exactly when it is a BinaryOp whose precedence is lower than the parent's,
\* or equal to it while it is the right operand and the parent's operator is
\* "-" or "/"; so the text of the root is its two operands, each wrapped by
\* that rule, around the symbol.
C1_ParensExactlyAsStated ==
    (genStatus = "returned" /\ ast.type = "BinaryOp") =>
        latex = <<"$">> \o StatedOperand(ast.left, ast, FALSE) \o <<" ">>
                    \o SymbolOf(ast.operator) \o <<" ">>
                    \o StatedOperand(ast.right, ast, TRUE) \o <<"$">>

\* the words of the rendering in order: number texts, symbols, and "(" and
\* ")" around an operand the generator parenthesises
RECURSIVE WordsOf(_)
WordsOf(node) ==
    IF node.type = "Number"
    THEN <<node.value>>
    ELSE LET operand(child, is_right) ==
                 IF NeedsParens(child, PRECEDENCE[node.operator], is_right)
                 THEN <<(<<"(">>)>> \o WordsOf(child) \o <<(<<")">>)>>
                 ELSE WordsOf(child)
         IN  operand(node.left, FALSE) \o <<SymbolOf(node.operator)>>
                 \o operand(node.right, TRUE)

\* the words written one after the other, one space between neighbours
RECURSIVE Spaced(_)
Spaced(words) ==
    IF Len(words) = 0 THEN <<>>
    ELSE IF Len(words) = 1 THEN words[1]
    ELSE words[1] \o <<" ">> \o Spaced(Tail(words))

\* C2: for every well-formed tree generate returns, and what it returns is
\* "$", the words of the tree (number texts verbatim, the symbols + - \times
\* \div, "(" and ")" around a parenthesised operand) with exactly one space
\* between neighbouring words, and "$".
C2_LatexFormat ==
    (genStatus # "called" /\ WellFormed(ast)) =>
        /\ genStatus = "returned"
        /\ latex = <<"$">> \o Spaced(WordsOf(ast)) \o <<"$">>

\* generate has returned "$( 5 + 5 ) \times -3.1$"
C2_Witness ==
    /\ genStatus = "returned"
    /\ ast = BinaryOp(1, 1, "*",
                      BinaryOp(1, 1, "+", Number(1, 1, <<"5">>), Number(1, 1, <<"5">>)),
                      Number(1, 1, <<"-", "3", ".", "1">>))
    /\ latex = <<"$", "(", " ", "5", " ", "+", " ", "5", " ", ")", " ",
                 "\\", "t", "i", "m", "e", "s", " ", "-", "3", ".", "1", "$">>

----------------------------------------------------------------------------
(* Properties of the parser, under SpecParser *)

\* the tokens before EOF of the list handed to the parser
InputTokens == SubSeq(ptokens, 1, Len(ptokens) - 1)
NumberTokenCount == Cardinality({i \in 1..Len(InputTokens) : InputTokens[i].type = "NUMBER"})
OperatorTokenCount ==
    Cardinality({i \in 1..Len(InputTokens) : InputTokens[i].type \in OperatorTypes})
EofToken == ptokens[Len(ptokens)]

\* parse has ended with the scan at EOF
EndedAtEof == pstatus \in {"returned", "raised"} /\ ptokens[ppos + 1].type = "EOF"

C4_OperatorNeedsTwoOperands ==
    [][(pstatus = "running" /\ Current.type \in OperatorTypes /\ Len(stack) < 2) =>
          /\ pstatus' = "raised"
          /\ perror'.message = OperatorText \o Current.value \o RequiresTwoOperandsText
          /\ perror'.token = Current
          /\ perror'.token.line = Current.line
          /\ perror'.token.column = Current.column
          /\ stack' = stack]_vars

\* "1 +" has failed at the "+" (1:3) with the one operand still on the stack
C4_Witness ==
    /\ pstatus = "raised"
    /\ ptokens[ppos + 1] = Token("PLUS", <<"+">>, 1, 3)
    /\ stack = <<Number(1, 1, <<"1">>)>>
    /\ perror.token = Token("PLUS", <<"+">>, 1, 3)

\* the nodes of a tree
RECURSIVE NodesOf(_)
NodesOf(node) ==
    IF node.type = "Number"
    THEN <<node>>
    ELSE NodesOf(node.left) \o NodesOf(node.right) \o <<node>>

\* the node is built from the token: a Number leaf with the text of a NUMBER
\* token, or a BinaryOp with the operator of an operator token, at its place
BuiltFrom(node, token) ==
    /\ node.line = token.line
    /\ node.column = token.column
    /\ IF token.type = "NUMBER"
       THEN node.type = "Number" /\ node.value = token.value
       ELSE node.type = "BinaryOp" /\ <<node.operator>> = token.value

\* C10: a tree parse returns has as many BinaryOp nodes as the list has
\* operator tokens and as many Number leaves as it has NUMBER tokens, hence
\* 2 * numbers - 1 nodes, and every token is the token of exactly one node.
C10_TreeMatchesTokens ==
    pstatus = "returned" =>
        LET nodes == NodesOf(presult)
        IN  /\ Cardinality({i \in 1..Len(nodes) : nodes[i].type = "BinaryOp"})
                   = OperatorTokenCount
            /\ Cardinality({i \in 1..Len(nodes) : nodes[i].type = "Number"})
                   = NumberTokenCount
            /\ Len(nodes) = 2 * NumberTokenCount - 1
            /\ \A t \in 1..Len(InputTokens) :
                   Cardinality({i \in 1..Len(nodes) : BuiltFrom(nodes[i], InputTokens[t])}) = 1

\* "1 2 + 4 *" has been parsed into a tree of two operators and three numbers
C10_Witness ==
    /\ pstatus = "returned"
    /\ Len(ptokens) = 6
    /\ OperatorTokenCount = 2
    /\ presult.type = "BinaryOp"
    /\ presult.operator = "*"
    /\ presult.left.type = "BinaryOp"
    /\ presult.right = Number(1, 7, <<"4">>)

----------------------------------------------------------------------------
(* Properties of the lexer, under SpecLexer *)

\* the 1-based line and column of the i-th character of the text, counted
\* from the text itself: one more line per "\n" before it, and the column
\* the distance from the last "\n" before it
LineOf(i) == 1 + Cardinality({j \in 1..(i - 1) : text[j] = "\n"})
ColumnOf(i) ==
    LET feeds == {j \in 1..(i - 1) : text[j] = "\n"}
    IN  IF feeds = {} THEN i
        ELSE i - (CHOOSE j \in feeds : \A k \in feeds : k <= j)

\* the characters from the cursor on that are not whitespace
AheadOfCursor == {i \in (pos + 1)..Len(text) : text[i] \notin Whitespace}
\* the character the scan reaches next
NextStart == CHOOSE i \in AheadOfCursor : \A k \in AheadOfCursor : i <= k

\* C5: when the scan reaches a character that is not whitespace, not one of
\* + - * / and not a decimal digit, tokenize raises at once, with that
\* character and its 1-based line and column in the error, and returns no
\* token list.
C5_InvalidCharacterRaises ==
    [][(/\ lexStatus = "scanning"
        /\ AheadOfCursor # {}
        /\ text[NextStart] \notin OperatorChars \cup DecimalDigits) =>
          /\ lexStatus' = "raised"
          /\ lexError' = LexerError(UnexpectedCharacterText \o <<text[NextStart], "'">>,
                                    LineOf(NextStart), ColumnOf(NextStart))]_vars

\* C6: a token list tokenize returns ends with an EOF token, none before it
\* is EOF, and the EOF token carries the line and column just past the last
\* character of the text; the empty text gives EOF at 1:1 alone and
\* "5 3 +" gives EOF at 1:6.
C6_EofToken ==
    lexStatus = "returned" =>
        /\ Len(tokens) >= 1
        /\ tokens[Len(tokens)] =
               Token("EOF", <<>>, LineOf(Len(text) + 1), ColumnOf(Len(text) + 1))
        /\ \A i \in 1..(Len(tokens) - 1) : tokens[i].type # "EOF"
        /\ text = <<>> => tokens = <<Token("EOF", <<>>, 1, 1)>>
        /\ text = <<"5", " ", "3", " ", "+">> =>
               tokens[Len(tokens)] = Token("EOF", <<>>, 1, 6)

\* tokenize has returned on "5\n3\n+": four tokens, EOF at 3:2
C6_Witness ==
    /\ lexStatus = "returned"
    /\ text = <<"5", "\n", "3", "\n", "+">>
    /\ Len(tokens) = 4
    /\ tokens[4] = Token("EOF", <<>>, 3, 2)

----------------------------------------------------------------------------
(* Properties of the error formatter, under SpecFormatter *)

\* s.split("\n") from index i on
RECURSIVE RowsFrom(_, _, _)
RowsFrom(s, i, cur) ==
    IF i > Len(s) THEN <<cur>>
    ELSE IF s[i] = "\n" THEN <<cur>> \o RowsFrom(s, i + 1, <<>>)
    ELSE RowsFrom(s, i + 1, Append(cur, s[i]))

\* the rows of the formatted error
RowsOf(s) == RowsFrom(s, 1, <<>>)

\* a row of blanks, " | ", col - 1 spaces and "^"
IsCaretRow(row, col) ==
    \E w \in 1..Len(row) :
        row = Repeat(" ", w) \o BarText \o Repeat(" ", col - 1) \o <<"^">>

\* C7: whatever the source, the line and the column, the formatted error
\* has the caret row; when the error line is past the last source line the
\* row before it shows that line number with empty content.
C7_CaretRowAlways ==
    fmtStatus = "returned" =>
        LET rows == RowsOf(formatted)
        IN  \E i \in 2..Len(rows) :
                /\ IsCaretRow(rows[i], fmtColumn)
                /\ fmtLine - 1 >= Len(lines) =>
                       \E w \in 0..Len(rows[i - 1]) :
                           rows[i - 1] = Repeat(" ", w) \o IntToStr(fmtLine) \o BarText

----------------------------------------------------------------------------
(* Properties of main, under Spec *)

\* main has ended: it returned, or an exception left it
MainEnded == pc \in {"returned", "raised"}

\* the LaTeX was written, to stdout or to the output file
LatexWritten ==
    /\ genStatus = "returned"
    /\ \/ outputArg = <<>> /\ stdout = latex \o <<"\n">>
       \/ outputArg # <<>> /\ outFile = latex \o <<"\n">>

\* C9: main returns 0 when reading, tokenizing, parsing, generating and
\* writing all succeed and 1 on any failure to read, tokenize, parse or
\* write; after a failure to tokenize or parse the formatted error is on
\* stderr and no LaTeX is on stdout or in the output file.
C9_ExitCodes ==
    MainEnded =>
        /\ exitCode = IF LatexWritten THEN <<0>> ELSE <<1>>
        /\ (lexStatus = "raised" \/ pstatus = "raised") =>
               /\ stderr = formatted \o <<"\n">>
               /\ fmtStatus = "returned"
               /\ genStatus = "idle"
               /\ stdout = <<>>
               /\ outFile = <<>>

----------------------------------------------------------------------------
(* Further properties of the lexer, under SpecLexer *)

\* C11: when the scan reaches a "-", a decimal digit right after it makes
\* one NUMBER token whose text begins with "-", placed at the "-"; anything
\* else after it (the end of the text, whitespace, any other character)
\* makes the MINUS token "-" and consumes the "-" alone.  Only the one
\* character after the "-" decides, whatever tokens came before.
C11_MinusLookahead ==
    [][(/\ lexStatus = "scanning"
        /\ AheadOfCursor # {}
        /\ text[NextStart] = "-") =>
          LET i == NextStart
              digitNext == i < Len(text) /\ text[i + 1] \in DecimalDigits
              new == tokens'[Len(tokens')]
          IN  /\ lexStatus' = "scanning"
              /\ Len(tokens') = Len(tokens) + 1
              /\ SubSeq(tokens', 1, Len(tokens)) = tokens
              /\ new.line = LineOf(i)
              /\ new.column = ColumnOf(i)
              /\ IF digitNext
                 THEN /\ new.type = "NUMBER"
                      /\ Len(new.value) >= 2
                      /\ new.value[1] = "-"
                      /\ new.value[2] = text[i + 1]
                 ELSE /\ new.type = "MINUS"
                      /\ new.value = <<"-">>
                      /\ pos' = i]_vars

\* a text of the shape of a number: an optional "-", then decimal digits,
\* then optionally one "." and more decimal digits
NumberShape(v) ==
    LET body == IF v # <<>> /\ v[1] = "-" THEN Tail(v) ELSE v
    IN  /\ Len(body) >= 1
        /\ body[1] \in DecimalDigits
        /\ \A i \in 1..Len(body) : body[i] \in DecimalDigits \cup {"."}
        /\ Cardinality({i \in 1..Len(body) : body[i] = "."}) <= 1

\* C12: the text of every NUMBER token is an optional "-", digits, and
\* optionally one "." with more digits; it is the longest such run of the
\* input from the place of the token, so it starts at a digit or at a "-"
\* right before a digit and never at "."; and the Number leaf made of the
\* token carries the same text.
C12_NumberTokens ==
    \A k \in 1..Len(tokens) :
        tokens[k].type = "NUMBER" =>
            LET t == tokens[k]
                n == Len(t.value)
            IN  /\ NumberShape(t.value)
                /\ t.value[1] # "."
                /\ \E s \in 1..Len(text) :
                       /\ LineOf(s) = t.line
                       /\ ColumnOf(s) = t.column
                       /\ s + n - 1 <= Len(text)
                       /\ t.value = SubSeq(text, s, s + n - 1)
                       /\ s + n <= Len(text) => ~NumberShape(SubSeq(text, s, s + n))
                /\ PushNumber(<<>>, t)[1].value = t.value

\* C14: line starts at 1 and grows by one exactly when a "\n" is consumed,
\* which sets column back to 1; column starts at 1 and grows by one with
\* every other consumed character; and every token carries the line and the
\* column the scanner had at the first character of the token, both at
\* least 1.
C14_LineAndColumn ==
    /\ [](lexStatus # "idle" =>
            /\ line = LineOf(pos + 1)
            /\ column = ColumnOf(pos + 1)
            /\ line >= 1 /\ column >= 1
            /\ \A p \in 0..(Len(text) - 1) :
                   LET before == Cursor(p, LineOf(p + 1), ColumnOf(p + 1))
                   IN  Advance(before) =
                           IF text[p + 1] = "\n"
                           THEN Cursor(p + 1, before.line + 1, 1)
                           ELSE Cursor(p + 1, before.line, before.column + 1)
            /\ \A k \in 1..Len(tokens) :
                   tokens[k].line >= 1 /\ tokens[k].column >= 1)
    /\ [][(lexStatus = "scanning" /\ Len(tokens') = Len(tokens) + 1
                /\ lexStatus' = "scanning") =>
            LET new == tokens'[Len(tokens')]
            IN  /\ new.value[1] = text[NextStart]
                /\ new.line = LineOf(NextStart)
                /\ new.column = ColumnOf(NextStart)]_vars

\* tokenize has returned on "5\n3\n+": the "3" is at 2:1 and the "+" at 3:1
C14_Witness ==
    /\ lexStatus = "returned"
    /\ text = <<"5", "\n", "3", "\n", "+">>
    /\ tokens[2] = Token("NUMBER", <<"3">>, 2, 1)
    /\ tokens[3] = Token("PLUS", <<"+">>, 3, 1)

\* the index of the first "." after a run of decimal digits that starts at
\* index i, or 0 when the run is empty or something else follows it
RECURSIVE DotAfterDigits(_, _)
DotAfterDigits(i, seen) ==
    IF i > Len(text) THEN 0
    ELSE IF text[i] \in DecimalDigits THEN DotAfterDigits(i + 1, TRUE)
    ELSE IF text[i] = "." /\ seen THEN i
    ELSE 0

\* the index of the second "." of the number that starts at index s, or 0
\* when no number with two dots starts there
SecondDot(s) ==
    LET first == DotAfterDigits(IF text[s] = "-" THEN s + 1 ELSE s, FALSE)
    IN  IF first = 0 THEN 0
        ELSE LET i == DotAfterDigits(first + 1, TRUE) IN i

\* C15: a number with a second "." is scanned up to that "." without an
\* error, giving a NUMBER token of the text before it; the scan of the next
\* token then fails with "Unexpected character '.'" at the second ".", so
\* tokenize fails in two steps: "1.2.3" gives the token "1.2" and then the
\* error at 1:4.  A "." at which a token should start fails in the same
\* way: ".5" fails at 1:1.
C15_SecondDot ==
    /\ [][(/\ lexStatus = "scanning"
            /\ AheadOfCursor # {}
            /\ SecondDot(NextStart) # 0) =>
              /\ lexStatus' = "scanning"
              /\ lexError' = NoError
              /\ pos' = SecondDot(NextStart) - 1
              /\ tokens' = Append(tokens,
                                  Token("NUMBER",
                                        SubSeq(text, NextStart, SecondDot(NextStart) - 1),
                                        LineOf(NextStart), ColumnOf(NextStart)))]_vars
    /\ [][(/\ lexStatus = "scanning"
            /\ AheadOfCursor # {}
            /\ text[NextStart] = ".") =>
              /\ lexStatus' = "raised"
              /\ lexError' = LexerError(UnexpectedCharacterText \o <<".", "'">>,
                                        LineOf(NextStart), ColumnOf(NextStart))]_vars
    /\ [](/\ (text = <<"1", ".", "2", ".", "3">> /\ pos > 0) =>
               /\ tokens = <<Token("NUMBER", <<"1", ".", "2">>, 1, 1)>>
               /\ pos = 3
               /\ lexStatus \in {"scanning", "raised"}
               /\ lexStatus = "raised" =>
                      lexError = LexerError(UnexpectedCharacterText \o <<".", "'">>, 1, 4)
          /\ (text = <<".", "5">> /\ lexStatus \notin {"idle", "scanning"}) =>
               /\ lexStatus = "raised"
               /\ lexError = LexerError(UnexpectedCharacterText \o <<".", "'">>, 1, 1))

\* tokenize has failed on "1.2.3" at the second "." (1:4), after "1.2"
C15_Witness ==
    /\ text = <<"1", ".", "2", ".", "3">>
    /\ lexStatus = "raised"
    /\ tokens = <<Token("NUMBER", <<"1", ".", "2">>, 1, 1)>>
    /\ lexError = LexerError(UnexpectedCharacterText \o <<".", "'">>, 1, 4)

----------------------------------------------------------------------------
(* Further properties of the parser, under SpecParser *)

\* C13: an operator token met with at least two items on the stack replaces
\* the two topmost by one BinaryOp at the place of the token, with the
\* operator of the token, the topmost item as right operand and the one
\* under it as left operand; a NUMBER token pushes one Number leaf with the
\* text and the place of the token.  So "a b op" gives BinaryOp(op, a, b),
\* and "a b -" is rendered "$a - b$".
C13_OperandOrder ==
    /\ [][(pstatus = "running" /\ ptokens[ppos + 1].type # "EOF") =>
            LET token == ptokens[ppos + 1]
                n == Len(stack)
            IN  IF token.type \in OperatorTypes /\ n >= 2
                THEN /\ stack' = Append(SubSeq(stack, 1, n - 2),
                                      [type |-> "BinaryOp", line |-> token.line,
                                       column |-> token.column,
                                       operator |-> token.value[1],
                                       left |-> stack[n - 1], right |-> stack[n]])
                     /\ ppos' = ppos + 1
                     /\ pstatus' = "running"
                ELSE IF token.type = "NUMBER"
                THEN /\ stack' = Append(stack,
                                      [type |-> "Number", line |-> token.line,
                                       column |-> token.column, value |-> token.value])
                     /\ ppos' = ppos + 1
                     /\ pstatus' = "running"
                ELSE TRUE]_vars
    /\ []((/\ pstatus = "returned"
            /\ Len(ptokens) = 4
            /\ ptokens[1].type = "NUMBER" /\ ptokens[2].type = "NUMBER")
           => /\ presult.type = "BinaryOp"
              /\ presult.operator = ptokens[3].value[1]
              /\ presult.left.value = ptokens[1].value
              /\ presult.right.value = ptokens[2].value
              /\ ptokens[3].type = "MINUS" =>
                     GenerateLatex(presult).out =
                         <<"$">> \o ptokens[1].value \o <<" ", "-", " ">>
                             \o ptokens[2].value \o <<"$">>)

\* "1 2 -" has been parsed into 1 - 2, the node at the "-" (1:5)
C13_Witness ==
    /\ pstatus = "returned"
    /\ presult = BinaryOp(1, 5, "-", Number(1, 1, <<"1">>), Number(1, 3, <<"2">>))
    /\ GenerateLatex(presult).out = <<"$", "1", " ", "-", " ", "2", "$">>

\* the counter after the first k tokens: one up per NUMBER, one down per
\* operator
Counter(k) ==
    Cardinality({i \in 1..k : ptokens[i].type = "NUMBER"})
        - Cardinality({i \in 1..k : ptokens[i].type \in OperatorTypes})

\* the counter is at least 2 right before every operator and 1 at EOF
CounterAllows ==
    /\ \A i \in 1..Len(InputTokens) :
           InputTokens[i].type \in OperatorTypes => Counter(i - 1) >= 2
    /\ Counter(Len(InputTokens)) = 1

\* C17: with a counter that starts at 0, goes one up per NUMBER and one
\* down per operator, the stack has the size of the counter after the tokens
\* processed so far, at least 1 once a token was processed; parse returns a
\* tree exactly when the counter is at least 2 right before every operator
\* and 1 at EOF, and otherwise raises ParserError and returns no tree.
C17_StackCounter ==
    pstatus # "idle" =>
        /\ Len(stack) = Counter(ppos)
        /\ ppos >= 1 => Len(stack) >= 1
        /\ pstatus = "returned" =>
               /\ CounterAllows
               /\ presult.type \in {"Number", "BinaryOp"}
               /\ perror = NoParserError
        /\ pstatus = "raised" =>
               /\ ~CounterAllows
               /\ presult = NoExpr
               /\ perror # NoParserError

\* "1 2 3 + -" has been parsed: the counter went 1 2 3 2 1
C17_Witness ==
    /\ pstatus = "returned"
    /\ Len(ptokens) = 6
    /\ Counter(3) = 3
    /\ Counter(5) = 1
    /\ Len(stack) = 1
    /\ ppos = 5

----------------------------------------------------------------------------
(* Further properties of the generator, under SpecGenerator *)

\* Rational numbers in lowest terms with a positive denominator; the
\* denominator 0 stands for "no value" (a division by zero).
RECURSIVE Gcd(_, _)
Gcd(a, b) == IF b = 0 THEN a ELSE Gcd(b, a % b)
Abs(n) == IF n < 0 THEN -n ELSE n
NoValue == [n |-> 0, d |-> 0]
Rat(n, d) ==
    IF d = 0 THEN NoValue
    ELSE LET g == Gcd(Abs(n), Abs(d))
         IN  IF d < 0 THEN [n |-> (-n) \div g, d |-> (-d) \div g]
             ELSE [n |-> n \div g, d |-> d \div g]

\* the value of a op b
Apply(op, a, b) ==
    IF a.d = 0 \/ b.d = 0 THEN NoValue
    ELSE IF op = "+" THEN Rat(a.n * b.d + b.n * a.d, a.d * b.d)
    ELSE IF op = "-" THEN Rat(a.n * b.d - b.n * a.d, a.d * b.d)
    ELSE IF op = "*" THEN Rat(a.n * b.n, a.d * b.d)
    ELSE Rat(a.n * b.d, a.d * b.n)

\* the number a run of decimal digits denotes
RECURSIVE DigitsValue(_)
DigitsValue(v) ==
    IF v = <<>> THEN 0
    ELSE 10 * DigitsValue(SubSeq(v, 1, Len(v) - 1))
         + (CHOOSE k \in 0..9 : IntToStr(k) = <<v[Len(v)]>>)

RECURSIVE PowerOfTen(_)
PowerOfTen(k) == IF k = 0 THEN 1 ELSE 10 * PowerOfTen(k - 1)

\* the number a number text denotes: -?digits(.digits)?
ValueOfText(v) ==
    LET negative == v[1] = "-"
        body == IF negative THEN Tail(v) ELSE v
        dots == {i \in 1..Len(body) : body[i] = "."}
        dot == IF dots = {} THEN Len(body) + 1 ELSE CHOOSE i \in dots : TRUE
        whole == SubSeq(body, 1, dot - 1)
        fraction == SubSeq(body, dot + 1, Len(body))
        scale == PowerOfTen(Len(fraction))
        magnitude == DigitsValue(whole) * scale + DigitsValue(fraction)
    IN  Rat(IF negative THEN -magnitude ELSE magnitude, scale)

\* the value of a tree
RECURSIVE ValueOf(_)
ValueOf(node) ==
    IF node.type = "Number"
    THEN ValueOfText(node.value)
    ELSE Apply(node.operator, ValueOf(node.left), ValueOf(node.right))

\* the words of a text, which single spaces separate
RECURSIVE WordsFrom(_, _, _)
WordsFrom(s, i, cur) ==
    IF i > Len(s) THEN <<cur>>
    ELSE IF s[i] = " " THEN <<cur>> \o WordsFrom(s, i + 1, <<>>)
    ELSE WordsFrom(s, i + 1, Append(cur, s[i]))

TimesWord == <<"\\", "t", "i", "m", "e", "s">>
DivWord == <<"\\", "d", "i", "v">>

\* Reading of words as infix notation: an expression is terms joined by +
\* and -, a term is factors joined by \times and \div, both from left to
\* right, and a factor is a number or an expression between "(" and ")".
\* Each reader gives the value read and the words left.
RECURSIVE ReadExpr(_), ReadExprRest(_, _), ReadTerm(_), ReadTermRest(_, _), ReadFactor(_)
ReadFactor(ws) ==
    IF ws[1] = <<"(">>
    THEN LET e == ReadExpr(Tail(ws)) IN [val |-> e.val, rest |-> Tail(e.rest)]
    ELSE [val |-> ValueOfText(ws[1]), rest |-> Tail(ws)]

ReadTermRest(acc, ws) ==
    IF ws # <<>> /\ ws[1] \in {TimesWord, DivWord}
    THEN LET f == ReadFactor(Tail(ws))
         IN  ReadTermRest(Apply(IF ws[1] = TimesWord THEN "*" ELSE "/", acc, f.val),
                          f.rest)
    ELSE [val |-> acc, rest |-> ws]

ReadTerm(ws) == LET f == ReadFactor(ws) IN ReadTermRest(f.val, f.rest)

ReadExprRest(acc, ws) ==
    IF ws # <<>> /\ ws[1] \in {<<"+">>, <<"-">>}
    THEN LET t == ReadTerm(Tail(ws))
         IN  ReadExprRest(Apply(ws[1][1], acc, t.val), t.rest)
    ELSE [val |-> acc, rest |-> ws]

ReadExpr(ws) == LET t == ReadTerm(ws) IN ReadExprRest(t.val, t.rest)

\* the value of "$...$" read as infix notation
MeaningOf(s) == ReadExpr(WordsFrom(SubSeq(s, 2, Len(s) - 1), 1, <<>>)).val

\* C16: for every tree of Number leaves and + - * / nodes, the text that
\* generate returns, read as infix notation in which \times and \div bind
\* tighter than + and -, all four go from left to right and "( ... )"
\* groups, has the value of the tree.
C16_MeaningPreserved ==
    (genStatus = "returned" /\ WellFormed(ast)) => MeaningOf(latex) = ValueOf(ast)

----------------------------------------------------------------------------
(* Further properties of main, under Spec *)

\* the characters of the text that belong to no token and are no whitespace
InvalidPositions ==
    {i \in 1..Len(text) :
        text[i] \notin Whitespace \cup OperatorChars \cup DecimalDigits \cup {"."}}
FirstInvalid == CHOOSE i \in InvalidPositions : \A k \in InvalidPositions : i <= k

\* C18: the parser is constructed only when tokenize has returned, having
\* scanned the whole text; so when the text has a character that starts no
\* token, the parser is never run, and the error main reports is the
\* LexerError for the first such character, whatever RPN errors come before
\* it: "+ @" reports "@" at 1:3.
C18_LexerErrorFirst ==
    /\ pstatus # "idle" =>
           /\ lexStatus = "returned"
           /\ pos = Len(text)
           /\ ptokens = tokens
    /\ InvalidPositions # {} =>
           /\ pstatus = "idle"
           /\ lexStatus # "returned"
           /\ lexStatus = "raised" =>
                  lexError = LexerError(UnexpectedCharacterText
                                            \o <<text[FirstInvalid], "'">>,
                                        LineOf(FirstInvalid), ColumnOf(FirstInvalid))
           /\ fmtStatus # "idle" =>
                  /\ lexStatus = "raised"
                  /\ fmtMessage = lexError.message
                  /\ fmtLine = LineOf(FirstInvalid)
                  /\ fmtColumn = ColumnOf(FirstInvalid)
           /\ (MainEnded /\ lexStatus # "idle") =>
                  /\ lexStatus = "raised"
                  /\ fmtStatus = "returned"
                  /\ stderr = formatted \o <<"\n">>
                  /\ exitCode = <<1>>
    /\ (text = <<"+", " ", "@">> /\ lexStatus = "raised") =>
           lexError = LexerError(UnexpectedCharacterText \o <<"@", "'">>, 1, 3)

\* main has returned 1 on "+ @" with the error for "@" at 1:3 on stderr,
\* the parser never constructed
C18_Witness ==
    /\ text = <<"+", " ", "@">>
    /\ pc = "returned"
    /\ exitCode = <<1>>
    /\ pstatus = "idle"
    /\ fmtMessage = UnexpectedCharacterText \o <<"@", "'">>
    /\ fmtLine = 1 /\ fmtColumn = 3
    /\ stderr = formatted \o <<"\n">>

\* the line of the text around its i-th character: what lies between the
\* nearest "\n" or "\r" on either side
LineAround(i) ==
    LET before == {j \in 1..(i - 1) : text[j] \in {"\n", "\r"}}
        after == {j \in (i + 1)..Len(text) : text[j] \in {"\n", "\r"}}
        first == IF before = {} THEN 1
                 ELSE 1 + (CHOOSE j \in before : \A k \in before : k <= j)
        last == IF after = {} THEN Len(text)
                ELSE (CHOOSE j \in after : \A k \in after : j <= k) - 1
    IN  [first |-> first, content |-> SubSeq(text, first, last)]

\* C19: when tokenize has raised LexerError at (line, column), the formatted
\* error shows, on the row numbered line, the source line that holds the
\* offending character, and on the row under it the "^" exactly under that
\* character.
C19_CaretUnderCharacter ==
    (lexStatus = "raised" /\ fmtStatus = "returned" /\ InvalidPositions # {}) =>
        LET around == LineAround(FirstInvalid)
            offset == FirstInvalid - around.first
            number == IntToStr(lexError.line)
            rows == RowsOf(formatted)
        IN  \E r \in 3..(Len(rows) - 1) : \E w \in 0..1 :
                /\ rows[r] = Repeat(" ", w) \o number \o BarText \o around.content
                /\ rows[r + 1] = Repeat(" ", w + Len(number)) \o BarText
                                     \o Repeat(" ", offset) \o <<"^">>

----------------------------------------------------------------------------
(* Termination of the two loops, under SpecLoops *)

\* C20: tokenize ends on every text: an iteration of its loop consumes at
\* least one character, or ends the loop, or raises, and pos never exceeds
\* the length of the text.  parse ends on every token list that ends in
\* EOF: an iteration advances pos by exactly one, or leaves the loop at EOF,
\* or raises, and pos never passes the index of the EOF token.
C20_LoopsTerminate ==
    /\ [][lexStatus = "scanning" =>
              \/ pos' > pos
              \/ lexStatus' \in {"returned", "raised"}]_vars
    /\ [](pos <= Len(text))
    /\ [][pstatus = "running" =>
              \/ ppos' = ppos + 1 /\ ptokens[ppos + 1].type # "EOF"
              \/ pstatus' = "raised" /\ ppos' = ppos
              \/ /\ ptokens[ppos + 1].type = "EOF"
                 /\ pstatus' \in {"returned", "raised"}
                 /\ ppos' = ppos]_vars
    /\ [](pstatus # "idle" =>
              /\ ppos + 1 <= Len(ptokens)
              /\ \A k \in 1..ppos : ptokens[k].type # "EOF")
    /\ <>(lexStatus \in {"returned", "raised"} \/ pstatus \in {"returned", "raised"})

\* tokenize has returned on "2 3 + 4 *" with all nine characters consumed
C20_Witness ==
    /\ text = <<"2", " ", "3", " ", "+", " ", "4", " ", "*">>
    /\ lexStatus = "returned"
    /\ pos = 9
    /\ Len(tokens) = 6

============================================================================
